---- MODULE Spec2Model ----
(***************************************************************************)
(* TIM <-> PNG converter (ui_actions.py, tim_operations.py).               *)
(*                                                                         *)
(* Files are byte sequences, file names are character sequences, rasters   *)
(* are records of RGBA pixels.  Spec models the two public pipelines       *)
(* convert_tim_png (export) and convert_png_tim (import) step by step;     *)
(* SpecCodec models Tim_Object.decode and the encoder of convert_png_tim   *)
(* as functions applied to bounded inputs.                                 *)
(***************************************************************************)
EXTENDS Integers, Sequences, FiniteSets, TLC

\* ------------------------------------------------------------------ bounds

\* largest stored-width field of a source TIM (storage units)
MaxStoredWidth == 1
\* largest height field of a source TIM
MaxHeight == 2

\* -------------------------------------------------------- program constants

\* palette_size for the 4-bit format tag
PaletteSize4 == 16
\* palette_size for the 8-bit format tag
PaletteSize8 == 256
\* alpha threshold of the transparency mask
AlphaThreshold == 128
\* size of a section sub-header counted in clut_bnum / pixel_bnum
SectionHeaderLen == 12

\* ------------------------------------------------------------ byte helpers

Min(a, b) == IF a < b THEN a ELSE b

\* b'\x10\x00\x00\x00'
Magic == <<16, 0, 0, 0>>
\* b'\x08\x00\x00\x00'
Fmt4 == <<8, 0, 0, 0>>
\* b'\x09\x00\x00\x00'
Fmt8 == <<9, 0, 0, 0>>

\* raw_file.read(n) at 0-based offset pos: at most n bytes, fewer at end of file
ReadBytes(b, pos, n) == SubSeq(b, pos + 1, Min(pos + n, Len(b)))

\* struct.unpack('<H', s)[0] for a 2-byte s
UnpackU16(s) == s[1] + 256 * s[2]

\* struct.unpack('<I', s)[0] for a 4-byte s
UnpackU32(s) == s[1] + 256 * s[2] + 65536 * s[3] + 16777216 * s[4]

\* struct.pack('<H', v); v is in range wherever the model packs
PackU16(v) == <<v % 256, (v \div 256) % 256>>

\* struct.pack('<I', v)
PackU32(v) == <<v % 256, (v \div 256) % 256, (v \div 65536) % 256, (v \div 16777216) % 256>>

\* ------------------------------------------------------------------ read_tim

\* the data read of a section payload: raw_file.read(length) where length may
\* be negative (-1 reads to end of file, below -1 raises ValueError)
ReadPayload(b, pos, length) ==
    IF length = -1 THEN SubSeq(b, pos + 1, Len(b)) ELSE ReadBytes(b, pos, length)

\* the pixel section of read_tim, entered at offset pos with the palette
\* section already parsed into the record hd
ReadPixelSection(b, pos, hd) ==
    IF Len(ReadBytes(b, pos, 4)) < 4 THEN [ok |-> FALSE, err |-> "StructError"]
    ELSE LET pixel_bnum == UnpackU32(ReadBytes(b, pos, 4)) IN
    IF Len(ReadBytes(b, pos + 4, 2)) < 2 \/ Len(ReadBytes(b, pos + 6, 2)) < 2
       \/ Len(ReadBytes(b, pos + 8, 2)) < 2 \/ Len(ReadBytes(b, pos + 10, 2)) < 2
    THEN [ok |-> FALSE, err |-> "StructError"]
    ELSE LET stored == UnpackU16(ReadBytes(b, pos + 8, 2))
             width == IF hd.format_flag = Fmt4 THEN stored * 4
                      ELSE IF hd.format_flag = Fmt8 THEN stored * 2
                      ELSE stored
             pixel_data_length == pixel_bnum - SectionHeaderLen
         IN
    IF pixel_data_length < -1 THEN [ok |-> FALSE, err |-> "ReadLengthError"]
    ELSE [ok |-> TRUE,
          tim |-> [header_id |-> hd.header_id,
                   format_flag |-> hd.format_flag,
                   clut_bnum |-> hd.clut_bnum,
                   clut_data |-> hd.clut_data,
                   clut_coord_x |-> hd.clut_coord_x,
                   clut_coord_y |-> hd.clut_coord_y,
                   clut_size_x |-> hd.clut_size_x,
                   clut_size_y |-> hd.clut_size_y,
                   pixel_bnum |-> pixel_bnum,
                   pixel_coord_x |-> UnpackU16(ReadBytes(b, pos + 4, 2)),
                   pixel_coord_y |-> UnpackU16(ReadBytes(b, pos + 6, 2)),
                   pixel_data_width |-> width,
                   pixel_data_height |-> UnpackU16(ReadBytes(b, pos + 10, 2)),
                   pixel_data |-> ReadPayload(b, pos + 12, pixel_data_length)]]

\* read_tim from the palette section on, header_id and format_flag accepted
ReadSections(b, header_id, format_flag) ==
    IF Len(ReadBytes(b, 8, 4)) < 4 THEN [ok |-> FALSE, err |-> "StructError"]
    ELSE LET clut_bnum == UnpackU32(ReadBytes(b, 8, 4)) IN
    IF Len(ReadBytes(b, 12, 2)) < 2 \/ Len(ReadBytes(b, 14, 2)) < 2
       \/ Len(ReadBytes(b, 16, 2)) < 2 \/ Len(ReadBytes(b, 18, 2)) < 2
    THEN [ok |-> FALSE, err |-> "StructError"]
    ELSE LET clut_data_length == clut_bnum - SectionHeaderLen IN
    IF clut_data_length < -1 THEN [ok |-> FALSE, err |-> "ReadLengthError"]
    ELSE LET clut_data == ReadPayload(b, 20, clut_data_length) IN
         ReadPixelSection(b, 20 + Len(clut_data),
             [header_id |-> header_id,
              format_flag |-> format_flag,
              clut_bnum |-> clut_bnum,
              clut_data |-> clut_data,
              clut_coord_x |-> UnpackU16(ReadBytes(b, 12, 2)),
              clut_coord_y |-> UnpackU16(ReadBytes(b, 14, 2)),
              clut_size_x |-> UnpackU16(ReadBytes(b, 16, 2)),
              clut_size_y |-> UnpackU16(ReadBytes(b, 18, 2))])

\* a read_tim that tests the format tag before the magic
ReadTim_TagFirst(b) ==
    IF ReadBytes(b, 4, 4) \notin {Fmt4, Fmt8} THEN [ok |-> FALSE, err |-> "UnsupportedFormat"]
    ELSE IF ReadBytes(b, 0, 4) # Magic THEN [ok |-> FALSE, err |-> "InvalidHeader"]
    ELSE ReadSections(b, ReadBytes(b, 0, 4), ReadBytes(b, 4, 4))

\* read_tim on the bytes of a file: the parsed dictionary, or the error raised
ReadTim(b) ==
    LET header_id == ReadBytes(b, 0, 4)
        format_flag == ReadBytes(b, 4, 4)
    IN
    IF header_id # Magic THEN [ok |-> FALSE, err |-> "InvalidHeader"]
    ELSE IF format_flag \notin {Fmt4, Fmt8} THEN [ok |-> FALSE, err |-> "UnsupportedFormat"]
    ELSE ReadSections(b, header_id, format_flag)

\* ------------------------------------------------------------ write_tim_file

\* the byte strings write_tim_file hands to f.write, in order
WriteChunks(d) ==
    << d.header_id,
       d.tim_format,
       PackU32(d.new_clut_bnum),
       PackU16(d.clut_coord_x) \o PackU16(d.clut_coord_y),
       PackU16(d.clut_size_x) \o PackU16(d.clut_size_y),
       d.common_clut,
       PackU32(d.new_pixel_bnum),
       PackU16(d.pixel_coord_x) \o PackU16(d.pixel_coord_y),
       PackU16(d.stored_width_value),
       PackU16(d.height),
       d.new_pixel_data >>

RECURSIVE Concat(_, _)
\* the first n chunks of cs, concatenated
Concat(cs, n) == IF n = 0 THEN <<>> ELSE Concat(cs, n - 1) \o cs[n]

\* the file write_tim_file leaves when every write succeeds
WriteTimFile(d) == Concat(WriteChunks(d), Len(WriteChunks(d)))

\* ------------------------------------------------------------- file names

None == <<>>
Some(x) == <<x>>

UpperLetters == <<"A", "B", "I", "M", "T">>
LowerLetters == <<"a", "b", "i", "m", "t">>

\* str.lower() on one character of the alphabet the model's names use
LowerChar(c) ==
    IF \E k \in 1..Len(UpperLetters) : UpperLetters[k] = c
    THEN LowerLetters[CHOOSE k \in 1..Len(UpperLetters) : UpperLetters[k] = c]
    ELSE c

\* str.lower()
Lower(s) == [k \in 1..Len(s) |-> LowerChar(s[k])]

\* name.rfind('.') as a 1-based position, 0 when there is no dot
LastDot(name) ==
    IF \E k \in 1..Len(name) : name[k] = "."
    THEN CHOOSE k \in 1..Len(name) : name[k] = "." /\ \A j \in (k + 1)..Len(name) : name[j] # "."
    ELSE 0

\* pathlib: the suffix starts at the last dot unless that dot leads or ends the name
HasSuffix(name) == 1 < LastDot(name) /\ LastDot(name) < Len(name)

\* Path.suffix
Suffix(name) == IF HasSuffix(name) THEN SubSeq(name, LastDot(name), Len(name)) ELSE <<>>

\* a stem folded to lower case
Stem_Lower(name) ==
    Lower(IF HasSuffix(name) THEN SubSeq(name, 1, LastDot(name) - 1) ELSE name)

\* Path.stem
Stem(name) == IF HasSuffix(name) THEN SubSeq(name, 1, LastDot(name) - 1) ELSE name

DotTim == <<".", "t", "i", "m">>
DotPng == <<".", "p", "n", "g">>

\* ---------------------------------------------------------------- Tim_Object

\* Tim_Object.__init__ on the dictionary read_tim returned for file name
Tim_Object(name, d) ==
    [tim_file_name |-> name,
     header_id |-> d.header_id,
     format_flag |-> d.format_flag,
     clut_bnum |-> d.clut_bnum,
     clut_data |-> d.clut_data,
     clut_coord_x |-> d.clut_coord_x,
     clut_coord_y |-> d.clut_coord_y,
     clut_size_x |-> d.clut_size_x,
     clut_size_y |-> d.clut_size_y,
     clut_data_length |-> Len(d.clut_data),
     pixel_bnum |-> d.pixel_bnum,
     pixel_coord_x |-> d.pixel_coord_x,
     pixel_coord_y |-> d.pixel_coord_y,
     pixel_data_width |-> d.pixel_data_width,
     pixel_data_height |-> d.pixel_data_height,
     pixel_data_length |-> Len(d.pixel_data),
     pixel_data |-> d.pixel_data,
     pil_image |-> None]

\* an unpacking that fills the low 3 bits with the high bits of the channel
Unpack555_Replicate(color) ==
    << (color % 32) * 8 + ((color % 32) \div 4),
       ((color \div 32) % 32) * 8 + (((color \div 32) % 32) \div 4),
       ((color \div 1024) % 32) * 8 + (((color \div 1024) % 32) \div 4) >>

\* one 16-bit palette entry to 8-bit RGB: each 5-bit channel shifted left by 3
Unpack555(color) ==
    << (color % 32) * 8, ((color \div 32) % 32) * 8, ((color \div 1024) % 32) * 8 >>

\* clut_rgb of decode: the palette bytes as RGB triples (length even)
ClutRgb(clut_data) ==
    [k \in 1..(Len(clut_data) \div 2) |->
        Unpack555(UnpackU16(SubSeq(clut_data, 2 * k - 1, 2 * k)))]

\* 0-based offset into pixel_data of the byte holding pixel (x, y)
PixelByteOffset(t, x, y) ==
    IF t.format_flag = Fmt4
    THEN y * (t.pixel_data_width \div 2) + (x \div 2)
    ELSE y * t.pixel_data_width + x

\* the palette index decode reads for pixel (x, y); the byte is present
PixelIndexAt(t, x, y) ==
    LET byte == t.pixel_data[PixelByteOffset(t, x, y) + 1] IN
    IF t.format_flag = Fmt4
    THEN IF x % 2 = 0 THEN byte % 16 ELSE (byte \div 16) % 16
    ELSE byte

\* Tim_Object.decode: the RGBA raster set as pil_image, or the exception raised
Decode(t) ==
    LET w == t.pixel_data_width
        h == t.pixel_data_height
    IN
    IF Len(t.clut_data) % 2 # 0 THEN [ok |-> FALSE, err |-> "ValueError"]
    ELSE LET clut == ClutRgb(t.clut_data) IN
    IF \E y \in 0..(h - 1), x \in 0..(w - 1) :
          \/ PixelByteOffset(t, x, y) >= Len(t.pixel_data)
          \/ PixelIndexAt(t, x, y) >= Len(clut)
    THEN [ok |-> FALSE, err |-> "IndexError"]
    ELSE [ok |-> TRUE,
          img |-> [w |-> w, h |-> h,
                   px |-> [p \in 1..(w * h) |->
                            clut[PixelIndexAt(t, (p - 1) % w, (p - 1) \div w) + 1]
                              \o <<255>>]]]

\* ------------------------------------------------------------------ encoder

\* squared Euclidean distance over (R, G, B)
Dist(px, c) ==
    (px[1] - c[1]) * (px[1] - c[1]) + (px[2] - c[2]) * (px[2] - c[2])
      + (px[3] - c[3]) * (px[3] - c[3])

\* a loop that takes an index when its distance is below or equal to the best
\* so far: it ends on the highest index of the least distance
FirstLeast_LastWins(d) ==
    CHOOSE i \in 0..(Len(d) - 1) :
        \A j \in 0..(Len(d) - 1) : d[i + 1] < d[j + 1] \/ (d[i + 1] = d[j + 1] /\ i >= j)

\* what the loop of nearest_index leaves in best_i for the distances d of the
\* palette entries (d[i + 1] for the 0-based index i): an index is taken only
\* when its distance is strictly below the best so far, so the loop ends on
\* the lowest index of the least distance
FirstLeast(d) ==
    CHOOSE i \in 0..(Len(d) - 1) :
        \A j \in 0..(Len(d) - 1) : d[i + 1] < d[j + 1] \/ (d[i + 1] = d[j + 1] /\ i <= j)

\* nearest_index(px): 0-based palette index
NearestIndex(px, pal) == FirstLeast([k \in 1..Len(pal) |-> Dist(px, pal[k])])

\* a transparency mask that also takes alpha equal to the threshold
Indexes_Inclusive(src, pal) ==
    [p \in 1..Len(src.px) |->
        IF src.px[p][4] <= AlphaThreshold THEN 0
        ELSE NearestIndex(SubSeq(src.px[p], 1, 3), pal) % 256]

\* indexes after the transparency mask: 0 where alpha < threshold
Indexes(src, pal) ==
    [p \in 1..Len(src.px) |->
        IF src.px[p][4] < AlphaThreshold THEN 0
        ELSE NearestIndex(SubSeq(src.px[p], 1, 3), pal) % 256]

\* a packing loop with the nibbles exchanged: high nibble = even x
PackNibbles_Swapped(indexes, w, h) ==
    [k \in 1..((w \div 2) * h) |->
        LET y == (k - 1) \div (w \div 2)
            x == 2 * ((k - 1) % (w \div 2))
            i1 == indexes[y * w + x + 1] % 16
            i2 == indexes[y * w + x + 2] % 16
        IN (i1 * 16) + i2]

\* the 4bpp packing loop: low nibble = even x, high nibble = odd x
PackNibbles(indexes, w, h) ==
    [k \in 1..((w \div 2) * h) |->
        LET y == (k - 1) \div (w \div 2)
            x == 2 * ((k - 1) % (w \div 2))
            i1 == indexes[y * w + x + 1] % 16
            i2 == indexes[y * w + x + 2] % 16
        IN (i2 * 16) + i1]

\* one RGB triple as a 16-bit palette entry
Pack555(c) ==
    ((c[1] \div 8) % 32) + ((c[2] \div 8) % 32) * 32 + ((c[3] \div 8) % 32) * 1024

\* clut_bytes: struct.pack("<H", val) of every palette entry, in order
ClutBytes(pal) ==
    [k \in 1..(2 * Len(pal)) |-> PackU16(Pack555(pal[(k + 1) \div 2]))[((k - 1) % 2) + 1]]

\* a "pad or trim" that pads with zero entries
PadOrTrim_ZeroPad(clut_bytes, clut_expected) ==
    IF Len(clut_bytes) < clut_expected * 2
    THEN clut_bytes \o [k \in 1..(clut_expected * 2 - Len(clut_bytes)) |-> 0]
    ELSE IF Len(clut_bytes) > clut_expected * 2
    THEN SubSeq(clut_bytes, 1, clut_expected * 2)
    ELSE clut_bytes

\* "pad or trim": repeat the last entry up to expected entries, or cut
PadOrTrim(clut_bytes, clut_expected) ==
    IF Len(clut_bytes) < clut_expected * 2
    THEN LET last == IF Len(clut_bytes) >= 2
                     THEN SubSeq(clut_bytes, Len(clut_bytes) - 1, Len(clut_bytes))
                     ELSE PackU16(0)
         IN clut_bytes \o [k \in 1..(clut_expected * 2 - Len(clut_bytes)) |->
                             last[((k - 1) % 2) + 1]]
    ELSE IF Len(clut_bytes) > clut_expected * 2
    THEN SubSeq(clut_bytes, 1, clut_expected * 2)
    ELSE clut_bytes

\* palette_size of a share-group
PaletteSizeOf(fmt_flag) == IF fmt_flag = Fmt4 THEN PaletteSize4 ELSE PaletteSize8

\* clut_expected: the declared slot count, the palette size when it is zero
ClutExpected(t, palette_size) ==
    IF t.clut_size_x * t.clut_size_y = 0 THEN palette_size
    ELSE t.clut_size_x * t.clut_size_y

\* stored_width_value written for a 8bpp item
StoredWidth8(t) == t.pixel_data_width \div 2

\* a 4bpp stored width computed with the 8bpp divisor
StoredWidth4_Half(t) == t.pixel_data_width \div 2

\* stored_width_value written for a 4bpp item
StoredWidth4(t) == t.pixel_data_width \div 4

\* an encoder whose section lengths count the payload without the 12-byte
\* section header
EncodeItem_PayloadLengths(t, fmt_flag, src, group_palette) ==
    LET indexes == Indexes(src, group_palette)
        w == t.pixel_data_width
        h == t.pixel_data_height
    IN
    IF fmt_flag # Fmt8 /\ w % 2 # 0 THEN [ok |-> FALSE, err |-> "WidthMustBeEven"]
    ELSE LET pixel_bytes == IF fmt_flag = Fmt8 THEN indexes ELSE PackNibbles(indexes, w, h)
             clut_bytes == PadOrTrim(ClutBytes(group_palette),
                                     ClutExpected(t, PaletteSizeOf(fmt_flag)))
         IN [ok |-> TRUE,
             out |-> [header_id |-> t.header_id,
                      tim_format |-> fmt_flag,
                      new_clut_bnum |-> Len(clut_bytes),
                      clut_coord_x |-> t.clut_coord_x,
                      clut_coord_y |-> t.clut_coord_y,
                      clut_size_x |-> t.clut_size_x,
                      clut_size_y |-> t.clut_size_y,
                      common_clut |-> clut_bytes,
                      new_pixel_bnum |-> Len(pixel_bytes),
                      pixel_coord_x |-> t.pixel_coord_x,
                      pixel_coord_y |-> t.pixel_coord_y,
                      stored_width_value |-> IF fmt_flag = Fmt8 THEN StoredWidth8(t)
                                             ELSE StoredWidth4(t),
                      height |-> t.pixel_data_height,
                      new_pixel_data |-> pixel_bytes]]

\* an encoder that declares the grid of the palette it stores: entries x 1
EncodeItem_GridFromPalette(t, fmt_flag, src, group_palette) ==
    LET indexes == Indexes(src, group_palette)
        w == t.pixel_data_width
        h == t.pixel_data_height
    IN
    IF fmt_flag # Fmt8 /\ w % 2 # 0 THEN [ok |-> FALSE, err |-> "WidthMustBeEven"]
    ELSE LET pixel_bytes == IF fmt_flag = Fmt8 THEN indexes ELSE PackNibbles(indexes, w, h)
             clut_bytes == PadOrTrim(ClutBytes(group_palette),
                                     ClutExpected(t, PaletteSizeOf(fmt_flag)))
         IN [ok |-> TRUE,
             out |-> [header_id |-> t.header_id,
                      tim_format |-> fmt_flag,
                      new_clut_bnum |-> Len(clut_bytes) + SectionHeaderLen,
                      clut_coord_x |-> t.clut_coord_x,
                      clut_coord_y |-> t.clut_coord_y,
                      clut_size_x |-> Len(clut_bytes) \div 2,
                      clut_size_y |-> 1,
                      common_clut |-> clut_bytes,
                      new_pixel_bnum |-> Len(pixel_bytes) + SectionHeaderLen,
                      pixel_coord_x |-> t.pixel_coord_x,
                      pixel_coord_y |-> t.pixel_coord_y,
                      stored_width_value |-> IF fmt_flag = Fmt8 THEN StoredWidth8(t)
                                             ELSE StoredWidth4(t),
                      height |-> t.pixel_data_height,
                      new_pixel_data |-> pixel_bytes]]

\* the fallback encoder of convert_png_tim: out_dict, or the error raised
EncodeItem(t, fmt_flag, src, group_palette) ==
    LET indexes == Indexes(src, group_palette)
        w == t.pixel_data_width
        h == t.pixel_data_height
    IN
    IF fmt_flag # Fmt8 /\ w % 2 # 0 THEN [ok |-> FALSE, err |-> "WidthMustBeEven"]
    ELSE LET pixel_bytes == IF fmt_flag = Fmt8 THEN indexes ELSE PackNibbles(indexes, w, h)
             clut_bytes == PadOrTrim(ClutBytes(group_palette),
                                     ClutExpected(t, PaletteSizeOf(fmt_flag)))
         IN [ok |-> TRUE,
             out |-> [header_id |-> t.header_id,
                      tim_format |-> fmt_flag,
                      new_clut_bnum |-> Len(clut_bytes) + SectionHeaderLen,
                      clut_coord_x |-> t.clut_coord_x,
                      clut_coord_y |-> t.clut_coord_y,
                      clut_size_x |-> t.clut_size_x,
                      clut_size_y |-> t.clut_size_y,
                      common_clut |-> clut_bytes,
                      new_pixel_bnum |-> Len(pixel_bytes) + SectionHeaderLen,
                      pixel_coord_x |-> t.pixel_coord_x,
                      pixel_coord_y |-> t.pixel_coord_y,
                      stored_width_value |-> IF fmt_flag = Fmt8 THEN StoredWidth8(t)
                                             ELSE StoredWidth4(t),
                      height |-> t.pixel_data_height,
                      new_pixel_data |-> pixel_bytes]]

\* compute_group_palette after the quantizer returned the colours flat:
\* at most palette_size of them, padded with black
ComputeGroupPalette(flat, palette_size) ==
    [k \in 1..palette_size |-> IF k <= Len(flat) THEN flat[k] ELSE <<0, 0, 0>>]

\* -------------------------------------------------------------------- state

VARIABLES
    mode,          \* "export" (convert_tim_png) or "import" (convert_png_tim)
    dirA,          \* folder_a: [is_dir, files: name -> bytes]
    dirB,          \* work folder: [is_dir, files: name -> PNG]
    listing,       \* the order folder.iterdir() yields the names of folder_a
    outDir,        \* out_folder of the import: name -> bytes on disk
    pc,            \* position in the pipeline
    li,            \* position of load_tim_files in listing
    tim_objects,   \* the dict of load_tim_files, in insertion order: [key, tim]
    mi,            \* position of the loop over tim_objects.items()
    png_map,       \* the dict of match_png_files, in insertion order: [key, png]
    groups,        \* the dict of group_by_clut_coords, in insertion order
    gi,            \* position of the loop over groups.items()
    ni,            \* position of the loop over the names of a group
    group_palette, \* the palette computed for the current group
    out_dict,      \* the record encoded for the current item, or None
    saved,         \* the list of saved paths the pipeline returns
    err,           \* the exception that left the pipeline, or None
    cin,           \* codec check: the source TIM record
    craster,       \* codec check: the raster decoded from cin, or None
    cout,          \* codec check: the record re-encoded from craster, or None
    cback,         \* codec check: the raster decoded from cout, or None
    cval,          \* colour check: the palette entry or RGB triple converted, or None
    ctrace         \* colour check: the results of the conversions applied so far

pipeVars == <<mode, dirA, dirB, listing, outDir, pc, li, tim_objects, mi, png_map,
              groups, gi, ni, group_palette, out_dict, saved, err>>
colourVars == <<cval, ctrace>>
codecVars == <<cin, craster, cout, cback, cval, ctrace>>
vars == <<mode, dirA, dirB, listing, outDir, pc, li, tim_objects, mi, png_map,
          groups, gi, ni, group_palette, out_dict, saved, err, cin, craster, cout, cback,
          cval, ctrace>>

\* an exception: its kind, the item name its message carries (or None), and
\* the kind of the exception it wraps ("" when it wraps none)
Error(kind, name, cause) == [kind |-> kind, name |-> name, cause |-> cause]

EmptyMap == [x \in {} |-> <<>>]

\* the map m with key k set to v
Put(m, k, v) == [x \in (DOMAIN m) \cup {k} |-> IF x = k THEN v ELSE m[x]]

\* the keys of an insertion-ordered dict
Keys(d) == {d[k].key : k \in 1..Len(d)}

\* d[key] for a key of the insertion-ordered dict d
Lookup(d, key) == d[CHOOSE k \in 1..Len(d) : d[k].key = key]

\* -------------------------------------------------------------- load_tim_files

\* `if not folder.is_dir()` of load_tim_files
LoadEnter ==
    /\ pc = "start"
    /\ IF ~dirA.is_dir
       THEN /\ pc' = "error"
            /\ err' = Some(Error("MissingDirectory", None, ""))
       ELSE /\ pc' = "load"
            /\ err' = err
    /\ UNCHANGED <<mode, dirA, dirB, listing, outDir, li, tim_objects, mi, png_map,
                   groups, gi, ni, group_palette, out_dict, saved>>
    /\ UNCHANGED codecVars

\* one iteration of `for file in folder.iterdir()`
LoadFile ==
    /\ pc = "load"
    /\ li <= Len(listing)
    /\ LET file == listing[li]
           r == ReadTim(dirA.files[file])
           key == Stem(file)
       IN
       IF Lower(Suffix(file)) # DotTim
       THEN /\ li' = li + 1
            /\ UNCHANGED <<pc, tim_objects, err>>
       ELSE IF ~r.ok
       THEN /\ pc' = "error"
            /\ err' = Some(Error(r.err, None, ""))
            /\ UNCHANGED <<li, tim_objects>>
       ELSE IF key \in Keys(tim_objects)
       THEN /\ pc' = "error"
            /\ err' = Some(Error("DuplicateName", Some(key), ""))
            /\ UNCHANGED <<li, tim_objects>>
       ELSE /\ tim_objects' = Append(tim_objects, [key |-> key, tim |-> Tim_Object(file, r.tim)])
            /\ li' = li + 1
            /\ UNCHANGED <<pc, err>>
    /\ UNCHANGED <<mode, dirA, dirB, listing, outDir, mi, png_map,
                   groups, gi, ni, group_palette, out_dict, saved>>
    /\ UNCHANGED codecVars

\* the end of load_tim_files: `if not tim_objects` and the return to the caller
LoadReturn ==
    /\ pc = "load"
    /\ li > Len(listing)
    /\ IF tim_objects = <<>>
       THEN /\ pc' = "error"
            /\ err' = Some(Error("NoSourceFiles", None, ""))
       ELSE /\ pc' = IF mode = "export" THEN "export" ELSE "match_enter"
            /\ err' = err
    /\ UNCHANGED <<mode, dirA, dirB, listing, outDir, li, tim_objects, mi, png_map,
                   groups, gi, ni, group_palette, out_dict, saved>>
    /\ UNCHANGED codecVars

\* ------------------------------------------------------------- match_png_files

\* `if not folder.is_dir()` of match_png_files
MatchEnter ==
    /\ pc = "match_enter"
    /\ IF ~dirB.is_dir
       THEN /\ pc' = "error"
            /\ err' = Some(Error("MissingDirectory", None, ""))
       ELSE /\ pc' = "match"
            /\ err' = err
    /\ mi' = 1
    /\ UNCHANGED <<mode, dirA, dirB, listing, outDir, li, tim_objects, png_map,
                   groups, gi, ni, group_palette, out_dict, saved>>
    /\ UNCHANGED codecVars

\* a size check that compares the heights only
SizeDiffers_HeightOnly(img, tim) == img.h # tim.pixel_data_height

\* a size check that compares the pixel counts only
SizeDiffers_Area(img, tim) == img.w * img.h # tim.pixel_data_width * tim.pixel_data_height

\* img.size != (tim.pixel_data_width, tim.pixel_data_height)
SizeDiffers(img, tim) == <<img.w, img.h>> # <<tim.pixel_data_width, tim.pixel_data_height>>

\* one iteration of `for name, tim in tim_objects.items()` of match_png_files
MatchPng ==
    /\ pc = "match"
    /\ mi <= Len(tim_objects)
    /\ LET name == tim_objects[mi].key
           tim == tim_objects[mi].tim
           png_path == name \o DotPng
       IN
       IF png_path \notin DOMAIN dirB.files
       THEN /\ pc' = "error"
            /\ err' = Some(Error("MissingMatch", Some(name), ""))
            /\ UNCHANGED <<mi, png_map>>
       ELSE IF ~dirB.files[png_path].ok
       THEN /\ pc' = "error"
            /\ err' = Some(Error("ImageOpenError", None, ""))
            /\ UNCHANGED <<mi, png_map>>
       ELSE IF SizeDiffers(dirB.files[png_path].img, tim)
       THEN /\ pc' = "error"
            /\ err' = Some(Error("SizeMismatch", Some(name), ""))
            /\ UNCHANGED <<mi, png_map>>
       ELSE /\ png_map' = Append(png_map, [key |-> name, png |-> png_path])
            /\ mi' = mi + 1
            /\ UNCHANGED <<pc, err>>
    /\ UNCHANGED <<mode, dirA, dirB, listing, outDir, li, tim_objects,
                   groups, gi, ni, group_palette, out_dict, saved>>
    /\ UNCHANGED codecVars

\* --------------------------------------------------------- group_by_clut_coords

\* the group key of a TIM
GroupKey(tim) == <<tim.format_flag, tim.clut_coord_x, tim.clut_coord_y>>

RECURSIVE GroupsOf(_, _)
\* groups after the first n items of tim_objects: setdefault(key, []).append(name)
GroupsOf(objs, n) ==
    IF n = 0 THEN <<>>
    ELSE LET g == GroupsOf(objs, n - 1)
             key == GroupKey(objs[n].tim)
         IN IF \E k \in 1..Len(g) : g[k].key = key
            THEN LET k == CHOOSE k \in 1..Len(g) : g[k].key = key
                 IN [g EXCEPT ![k].names = Append(@, objs[n].key)]
            ELSE Append(g, [key |-> key, names |-> <<objs[n].key>>])

\* group_by_clut_coords(tim_objects)
GroupByClutCoords(objs) == GroupsOf(objs, Len(objs))

\* match_png_files returns; convert_png_tim groups the TIMs (lines 270-277)
GroupStep ==
    /\ pc = "match"
    /\ mi > Len(tim_objects)
    /\ groups' = GroupByClutCoords(tim_objects)
    /\ gi' = 1
    /\ pc' = "groups"
    /\ UNCHANGED <<mode, dirA, dirB, listing, outDir, li, tim_objects, mi, png_map,
                   ni, group_palette, out_dict, saved, err>>
    /\ UNCHANGED codecVars

\* --------------------------------------------------------------- convert_png_tim

\* a colour table the quantizer may return: n colours
Ramp(n) == [k \in 1..n |-> <<((k - 1) * 8) % 256, ((k - 1) \div 32) * 32, 248 - (((k - 1) * 8) % 256)>>]

\* the colour tables the quantizer returns in the model: fewer colours than
\* any palette size, and the 256 entries of a full getpalette()
QuantizerOutputs == {Ramp(3), Ramp(PaletteSize8)}

\* the head of `for key, names in groups.items()`: one palette for the group,
\* or the exception of the image library
SynthesizePalette ==
    /\ pc = "groups"
    /\ gi <= Len(groups)
    /\ \E flat \in QuantizerOutputs \cup {<<>>} :
          IF flat = <<>>
          THEN /\ pc' = "error"
               /\ err' = Some(Error("QuantizeError", None, ""))
               /\ UNCHANGED <<group_palette, ni>>
          ELSE /\ group_palette' = ComputeGroupPalette(flat, PaletteSizeOf(groups[gi].key[1]))
               /\ ni' = 1
               /\ pc' = "members"
               /\ err' = err
    /\ UNCHANGED <<mode, dirA, dirB, listing, outDir, li, tim_objects, mi, png_map,
                   groups, gi, out_dict, saved>>
    /\ UNCHANGED codecVars

\* one iteration of `for name in names` up to the encoded out_dict
EncodeMember ==
    /\ pc = "members"
    /\ ni <= Len(groups[gi].names)
    /\ LET name == groups[gi].names[ni]
           tim_obj == Lookup(tim_objects, name).tim
           src == dirB.files[Lookup(png_map, name).png].img
           r == EncodeItem(tim_obj, groups[gi].key[1], src, group_palette)
       IN
       IF SizeDiffers(src, tim_obj)
       THEN /\ pc' = "error"
            /\ err' = Some(Error("SizeMismatch", Some(name), ""))
            /\ out_dict' = out_dict
       ELSE IF ~r.ok
       THEN /\ pc' = "error"
            /\ err' = Some(Error(r.err, Some(name), ""))
            /\ out_dict' = out_dict
       ELSE /\ out_dict' = Some(r.out)
            /\ pc' = "write"
            /\ err' = err
    /\ UNCHANGED <<mode, dirA, dirB, listing, outDir, li, tim_objects, mi, png_map,
                   groups, gi, ni, group_palette, saved>>
    /\ UNCHANGED codecVars

\* the places a failing write_tim_file can stop: open() fails (-1), or the
\* write after k chunks fails
WriteFailPoints(d) == (-1)..(Len(WriteChunks(d)) - 1)

\* a write step that records the failure and goes on with the next item
WriteMember_Continue ==
    /\ pc = "write"
    /\ LET name == groups[gi].names[ni]
           out_filename == name \o DotTim
           d == out_dict[1]
       IN
       \/ /\ outDir' = Put(outDir, out_filename, WriteTimFile(d))
          /\ saved' = Append(saved, out_filename)
          /\ err' = err
       \/ /\ \E k \in WriteFailPoints(d) :
                outDir' = IF k < 0 THEN outDir
                          ELSE Put(outDir, out_filename, Concat(WriteChunks(d), k))
          /\ err' = Some(Error("WriteFailure", Some(name), "OSError"))
          /\ saved' = saved
    /\ ni' = ni + 1
    /\ pc' = "members"
    /\ out_dict' = None
    /\ UNCHANGED <<mode, dirA, dirB, listing, li, tim_objects, mi, png_map,
                   groups, gi, group_palette>>
    /\ UNCHANGED codecVars

\* `write_tim_file(out_dict, out_filename)` and the end of the iteration
WriteMember ==
    /\ pc = "write"
    /\ LET name == groups[gi].names[ni]
           out_filename == name \o DotTim
           d == out_dict[1]
       IN
       \/ /\ outDir' = Put(outDir, out_filename, WriteTimFile(d))
          /\ saved' = Append(saved, out_filename)
          /\ ni' = ni + 1
          /\ pc' = "members"
          /\ err' = err
       \/ /\ \E k \in WriteFailPoints(d) :
                outDir' = IF k < 0 THEN outDir
                          ELSE Put(outDir, out_filename, Concat(WriteChunks(d), k))
          /\ pc' = "error"
          /\ err' = Some(Error("WriteFailure", Some(name), "OSError"))
          /\ UNCHANGED <<saved, ni>>
    /\ out_dict' = None
    /\ UNCHANGED <<mode, dirA, dirB, listing, li, tim_objects, mi, png_map,
                   groups, gi, group_palette>>
    /\ UNCHANGED codecVars

\* the names of the group are exhausted: next group
NextGroup ==
    /\ pc = "members"
    /\ ni > Len(groups[gi].names)
    /\ gi' = gi + 1
    /\ pc' = "groups"
    /\ UNCHANGED <<mode, dirA, dirB, listing, outDir, li, tim_objects, mi, png_map,
                   groups, ni, group_palette, out_dict, saved, err>>
    /\ UNCHANGED codecVars

\* `return saved` of convert_png_tim
ImportReturn ==
    /\ pc = "groups"
    /\ gi > Len(groups)
    /\ pc' = "done"
    /\ UNCHANGED <<mode, dirA, dirB, listing, outDir, li, tim_objects, mi, png_map,
                   groups, gi, ni, group_palette, out_dict, saved, err>>
    /\ UNCHANGED codecVars

\* --------------------------------------------------------------- convert_tim_png

\* one iteration of `for name, tim in tim_objects.items()` of convert_tim_png:
\* decode, then save the PNG; any exception is wrapped with the item's name
ExportItem ==
    /\ pc = "export"
    /\ mi <= Len(tim_objects)
    /\ LET name == tim_objects[mi].key
           r == Decode(tim_objects[mi].tim)
       IN
       IF ~r.ok
       THEN /\ pc' = "error"
            /\ err' = Some(Error("ExportFailure", Some(name), r.err))
            /\ UNCHANGED <<tim_objects, dirB, saved, mi>>
       ELSE /\ tim_objects' = [tim_objects EXCEPT ![mi].tim.pil_image = Some(r.img)]
            /\ \E save_ok \in BOOLEAN :
                  IF save_ok
                  THEN /\ dirB' = [is_dir |-> TRUE,
                                   files |-> Put(dirB.files, name \o DotPng,
                                                 [ok |-> TRUE, img |-> r.img])]
                       /\ saved' = Append(saved, name \o DotPng)
                       /\ mi' = mi + 1
                       /\ UNCHANGED <<pc, err>>
                  ELSE /\ pc' = "error"
                       /\ err' = Some(Error("ExportFailure", Some(name), "SaveError"))
                       /\ UNCHANGED <<dirB, saved, mi>>
    /\ UNCHANGED <<mode, dirA, listing, outDir, li, png_map,
                   groups, gi, ni, group_palette, out_dict>>
    /\ UNCHANGED codecVars

\* `return saved` of convert_tim_png
ExportReturn ==
    /\ pc = "export"
    /\ mi > Len(tim_objects)
    /\ pc' = "done"
    /\ UNCHANGED <<mode, dirA, dirB, listing, outDir, li, tim_objects, mi, png_map,
                   groups, gi, ni, group_palette, out_dict, saved, err>>
    /\ UNCHANGED codecVars

\* ------------------------------------------------------------ initial states

\* most files a source directory holds in the file-name scenarios
MaxFiles == 2

\* true pixel width of a stored width, as read_tim scales it
TrueWidth(fmt, stored) == IF fmt = Fmt4 THEN stored * 4 ELSE stored * 2

\* palette bytes of a source TIM: n entries, a grey ramp that repeats after
\* 32 entries, every second entry with bit 15 set
SrcClut(n) ==
    [k \in 1..(2 * n) |->
        PackU16(((((k - 1) \div 2) * 1057) % 32768)
                + (IF ((k - 1) \div 2) % 2 = 1 THEN 32768 ELSE 0))[((k - 1) % 2) + 1]]

\* pixel bytes of a source TIM: n bytes whose indices stay below limit
SrcPixels(fmt, n, limit) ==
    [k \in 1..n |->
        IF fmt = Fmt4 THEN ((2 * k) % limit) * 16 + ((2 * k - 1) % limit)
        ELSE (5 * k) % limit]

\* the number of pixel bytes of a w x h raster
PixelByteCount(fmt, w, h) == IF fmt = Fmt4 THEN (w \div 2) * h ELSE w * h

\* the bytes of a TIM file with the given fields, laid out as read_tim expects
TimBytes(fmt, cy, shape, clut, stored, h, pix) ==
    WriteTimFile([header_id |-> Magic,
                  tim_format |-> fmt,
                  new_clut_bnum |-> Len(clut) + SectionHeaderLen,
                  clut_coord_x |-> 0,
                  clut_coord_y |-> cy,
                  clut_size_x |-> shape[1],
                  clut_size_y |-> shape[2],
                  common_clut |-> clut,
                  new_pixel_bnum |-> Len(pix) + SectionHeaderLen,
                  pixel_coord_x |-> 320,
                  pixel_coord_y |-> 1,
                  stored_width_value |-> stored,
                  height |-> h,
                  new_pixel_data |-> pix])

\* a well-formed source TIM: palette data and pixel data as long as declared
SrcTim(fmt, cy, shape, stored, h) ==
    TimBytes(fmt, cy, shape, SrcClut(shape[1] * shape[2]), stored, h,
             SrcPixels(fmt, PixelByteCount(fmt, TrueWidth(fmt, stored), h),
                       IF shape[1] * shape[2] = 0 THEN 1
                       ELSE Min(shape[1] * shape[2], PaletteSizeOf(fmt))))

Fmts == {Fmt4, Fmt8}

\* declared CLUT grids: empty, below, at and above the palette size of the depth
ClutShapes(fmt) ==
    IF fmt = Fmt4 THEN {<<0, 0>>, <<15, 1>>, <<16, 1>>, <<16, 2>>}
    ELSE {<<0, 0>>, <<16, 1>>, <<256, 1>>, <<257, 1>>}

\* the CLUT grid that matches the palette size of the depth
FullShape(fmt) == IF fmt = Fmt4 THEN <<16, 1>> ELSE <<256, 1>>

\* RGBA pixels the rasters of the model are painted with
TestColours ==
    << <<0, 0, 0, 255>>, <<255, 8, 16, 255>>, <<8, 16, 24, 0>>,
       <<248, 248, 248, 127>>, <<100, 100, 100, 128>> >>

\* a readable PNG of w x h pixels
Png(w, h, k) ==
    [ok |-> TRUE,
     img |-> [w |-> w, h |-> h,
              px |-> [p \in 1..(w * h) |-> TestColours[((p + k) % Len(TestColours)) + 1]]]]

\* a file Image.open cannot read
CorruptPng == [ok |-> FALSE, img |-> [w |-> 0, h |-> 0, px |-> <<>>]]

NameA == <<"a", ".", "t", "i", "m">>
NameB == <<"b", ".", "t", "i", "m">>

\* the orders iterdir() can yield the names of S
Orders(S) ==
    {o \in [1..Cardinality(S) -> S] : \A i, j \in 1..Cardinality(S) : o[i] = o[j] => i = j}

\* the scenarios with folder_a holding the files fs and the work folder pngs
Scenarios(m, fs, pngs) ==
    {[mode |-> m, dirA |-> [is_dir |-> TRUE, files |-> fs],
      dirB |-> [is_dir |-> TRUE, files |-> pngs], listing |-> o] : o \in Orders(DOMAIN fs)}

\* the PNG of the right size for the TIM file bytes b (b parses)
MatchingPng(b, k) ==
    Png(ReadTim(b).tim.pixel_data_width, ReadTim(b).tim.pixel_data_height, k)

\* import of two well-formed TIMs over every CLUT grid, with matching PNGs
PairScenarios ==
    UNION {Scenarios("import",
                     Put(Put(EmptyMap, NameA, ta), NameB, tb),
                     Put(Put(EmptyMap, Stem(NameA) \o DotPng, MatchingPng(ta, 0)),
                         Stem(NameB) \o DotPng, MatchingPng(tb, 2))) :
           ta \in UNION {{SrcTim(f, 0, sh, sw, h) :
                             sh \in ClutShapes(f), sw \in 1..MaxStoredWidth, h \in 1..MaxHeight} :
                         f \in Fmts},
           tb \in {SrcTim(f, cy, sh, 1, 1) :
                      f \in Fmts, cy \in {0, 1}, sh \in {<<16, 1>>, <<16, 2>>}}}

\* the rasters a work folder may hold for the TIM file bytes b: none, the right
\* size, width and height swapped, an odd width, an unreadable file
PngStates(b) ==
    LET w == ReadTim(b).tim.pixel_data_width
        h == ReadTim(b).tim.pixel_data_height
    IN {<<>>, <<Png(w, h, 0)>>, <<Png(h, w, 0)>>, <<Png(w - 1, h, 0)>>, <<CorruptPng>>}

\* the work folder with the optional rasters pa, pb for a.tim, b.tim
PngFolder(pa, pb) ==
    LET fa == IF pa = <<>> THEN EmptyMap ELSE Put(EmptyMap, Stem(NameA) \o DotPng, pa[1])
    IN IF pb = <<>> THEN fa ELSE Put(fa, Stem(NameB) \o DotPng, pb[1])

\* a small well-formed TIM of the given depth in the CLUT row cy
SmallTim(fmt, cy) == SrcTim(fmt, cy, <<16, 1>>, 1, 1)

\* import of two well-formed TIMs with every state of their rasters
PngScenarios ==
    UNION {UNION {Scenarios("import",
                            Put(Put(EmptyMap, NameA, SmallTim(fa, 0)), NameB, SmallTim(fb, 0)),
                            PngFolder(pa, pb)) :
                  pa \in PngStates(SmallTim(fa, 0)), pb \in PngStates(SmallTim(fb, 0))} :
           fa \in Fmts, fb \in Fmts}

NameC == <<"c", ".", "t", "i", "m">>

\* import of three well-formed TIMs with matching PNGs: a.tim and c.tim share
\* a group, b.tim has a group of its own
TripleScenarios ==
    Scenarios("import",
              Put(Put(Put(EmptyMap, NameA, SmallTim(Fmt4, 0)), NameB, SmallTim(Fmt8, 0)),
                  NameC, SmallTim(Fmt4, 0)),
              Put(Put(Put(EmptyMap, Stem(NameA) \o DotPng, MatchingPng(SmallTim(Fmt4, 0), 0)),
                      Stem(NameB) \o DotPng, MatchingPng(SmallTim(Fmt8, 0), 1)),
                  Stem(NameC) \o DotPng, MatchingPng(SmallTim(Fmt4, 0), 2)))

NameUpperExt == <<"a", ".", "T", "I", "M">>
NameUpperStem == <<"A", ".", "t", "i", "m">>
NamePng == <<"a", ".", "p", "n", "g">>
NameHidden == <<".", "t", "i", "m">>

\* the file names of the file-name scenarios
NameCatalog == {NameA, NameUpperExt, NameUpperStem, NameB, NamePng, NameHidden}

\* b with its first 8 bytes (magic and format tag) replaced by head
WithHead(b, head) == head \o SubSeq(b, 9, Len(b))

\* files read_tim rejects for their magic
BadMagicFiles ==
    { <<>>,
      <<16, 0, 0>>,
      WithHead(SmallTim(Fmt4, 0), <<17, 0, 0, 0>> \o Fmt4),
      WithHead(SmallTim(Fmt4, 0), <<16, 0, 0, 1>> \o Fmt8),
      WithHead(SmallTim(Fmt4, 0), <<0, 0, 0, 16>> \o <<2, 0, 0, 0>>),
      WithHead(SmallTim(Fmt4, 0), Fmt4 \o Magic) }

\* files with the magic that read_tim rejects for their format tag
BadTagFiles ==
    { Magic,
      Magic \o <<8, 0>>,
      WithHead(SmallTim(Fmt4, 0), Magic \o <<2, 0, 0, 0>>),
      WithHead(SmallTim(Fmt4, 0), Magic \o <<8, 0, 0, 1>>),
      WithHead(SmallTim(Fmt4, 0), Magic \o <<0, 0, 0, 9>>),
      WithHead(SmallTim(Fmt4, 0), Magic \o Magic) }

\* files with magic and tag that end early or declare impossible lengths
TruncatedFiles ==
    { Magic \o Fmt4,
      Magic \o Fmt8 \o PackU32(5) \o <<0, 0, 0, 0, 16, 0, 1, 0>>,
      Magic \o Fmt8 \o PackU32(11) \o <<0, 0, 0, 0, 16, 0, 1, 0>> \o <<1, 2, 3>>,
      SubSeq(SmallTim(Fmt4, 0), 1, Len(SmallTim(Fmt4, 0)) - 4),
      TimBytes(Fmt4, 0, <<0, 0>>, <<>>, 1, 1, <<>>)
        \o PackU32(0) \o <<0, 0, 0, 0, 1, 0, 1, 0>> }

\* one rejected or well-formed TIM beside a well-formed one, both pipelines
MalformedScenarios ==
    UNION {Scenarios(m, Put(Put(EmptyMap, NameA, ta), NameB, SmallTim(Fmt8, 0)),
                     Put(EmptyMap, Stem(NameB) \o DotPng, MatchingPng(SmallTim(Fmt8, 0), 0))) :
           m \in {"export", "import"},
           ta \in BadMagicFiles \cup BadTagFiles \cup TruncatedFiles}

\* up to MaxFiles names of the catalog, each well-formed or with a bad magic
NameScenarios ==
    UNION {UNION {Scenarios("export", fs, EmptyMap) :
                  fs \in [S -> {SmallTim(Fmt4, 0),
                                WithHead(SmallTim(Fmt4, 0), <<17, 0, 0, 0>> \o Fmt4)}]} :
           S \in {S \in SUBSET NameCatalog : Cardinality(S) <= MaxFiles}}

\* TIMs decode accepts, and TIMs it fails on: a pixel index beyond the palette,
\* palette bytes of odd length, too few pixel bytes, no palette, spare bytes
DecodeFiles ==
    UNION {{SrcTim(f, 0, FullShape(f), sw, h) : sw \in 1..MaxStoredWidth, h \in 1..MaxHeight} :
           f \in Fmts}
    \cup { TimBytes(Fmt8, 0, <<2, 1>>, SrcClut(2), 1, 1, <<0, 5>>),
           TimBytes(Fmt4, 0, <<16, 1>>, SubSeq(SrcClut(16), 1, 31), 1, 1, <<33, 3>>),
           TimBytes(Fmt8, 0, <<16, 1>>, SrcClut(16), 1, 1, <<3>>),
           TimBytes(Fmt4, 0, <<0, 0>>, <<>>, 1, 1, <<0, 0>>),
           TimBytes(Fmt8, 0, <<16, 1>>, SrcClut(16), 1, 1, <<3, 4, 200>>) \o <<7, 7>> }

\* export of one TIM of DecodeFiles beside a well-formed one
DecodeScenarios ==
    UNION {Scenarios("export", Put(Put(EmptyMap, NameA, ta), NameB, SmallTim(Fmt4, 1)),
                     EmptyMap) :
           ta \in DecodeFiles}

\* a missing source folder, and a missing work folder of the import
MissingDirScenarios ==
    {[mode |-> m, dirA |-> [is_dir |-> FALSE, files |-> EmptyMap],
      dirB |-> [is_dir |-> TRUE, files |-> EmptyMap], listing |-> <<>>] :
        m \in {"export", "import"}}
    \cup {[mode |-> "import",
           dirA |-> [is_dir |-> TRUE, files |-> Put(EmptyMap, NameA, SmallTim(Fmt4, 0))],
           dirB |-> [is_dir |-> FALSE, files |-> EmptyMap], listing |-> <<NameA>>]}

\* the record the codec variables hold while a pipeline runs
NoTim == [format_flag |-> <<>>]

\* Init: a pipeline is called on one of the scenarios
Init ==
    /\ \E sc \in PairScenarios \cup PngScenarios \cup TripleScenarios \cup MalformedScenarios
                 \cup NameScenarios \cup DecodeScenarios \cup MissingDirScenarios :
          /\ mode = sc.mode
          /\ dirA = sc.dirA
          /\ dirB = sc.dirB
          /\ listing = sc.listing
    /\ outDir = EmptyMap
    /\ pc = "start"
    /\ li = 1
    /\ tim_objects = <<>>
    /\ mi = 1
    /\ png_map = <<>>
    /\ groups = <<>>
    /\ gi = 1
    /\ ni = 1
    /\ group_palette = <<>>
    /\ out_dict = None
    /\ saved = <<>>
    /\ err = None
    /\ cin = NoTim
    /\ craster = None
    /\ cout = None
    /\ cback = None
    /\ cval = None
    /\ ctrace = <<>>

Next ==
    \/ LoadEnter
    \/ LoadFile
    \/ LoadReturn
    \/ MatchEnter
    \/ MatchPng
    \/ GroupStep
    \/ SynthesizePalette
    \/ EncodeMember
    \/ WriteMember
    \/ NextGroup
    \/ ImportReturn
    \/ ExportItem
    \/ ExportReturn

Spec == Init /\ [][Next]_vars

\* ------------------------------------------------------- codec round trips

\* palette bytes of n entries in which the entries 2k and 2k+1 unpack to the
\* same colour and differ in bit 15 only
DupClut(n) ==
    [k \in 1..(2 * n) |->
        PackU16(((((k - 1) \div 4) * 1057) % 32768)
                + (IF ((k - 1) \div 2) % 2 = 1 THEN 32768 ELSE 0))[((k - 1) % 2) + 1]]

\* pixel bytes whose indices start at offset o and stay below limit
CodecPixels(fmt, n, limit, o) ==
    [k \in 1..n |->
        IF fmt = Fmt4 THEN (((2 * k) + o) % limit) * 16 + (((2 * k) - 1 + o) % limit)
        ELSE ((5 * k) + o) % limit]

\* the palettes of the codec inputs: declared grid and bytes
CodecCluts(fmt) ==
    IF fmt = Fmt4
    THEN {<<<<16, 1>>, SrcClut(16)>>, <<<<16, 1>>, DupClut(16)>>, <<<<16, 2>>, SrcClut(32)>>}
    ELSE {<<<<256, 1>>, SrcClut(256)>>, <<<<32, 1>>, SrcClut(32)>>, <<<<16, 1>>, DupClut(16)>>}

\* valid TIMs as load_tim_files holds them: every pixel index within the palette
CodecTims ==
    UNION {{Tim_Object(NameA,
              ReadTim(TimBytes(f, 0, c[1], c[2], sw, h,
                               CodecPixels(f, PixelByteCount(f, TrueWidth(f, sw), h),
                                           Min(Len(c[2]) \div 2, PaletteSizeOf(f)), o))).tim) :
              c \in CodecCluts(f), sw \in 1..MaxStoredWidth, h \in 1..MaxHeight,
              o \in {0, 3, 40}} :
           f \in Fmts}

\* the pipelines are idle while the codec is exercised
InitCodec ==
    /\ mode = "codec"
    /\ dirA = [is_dir |-> FALSE, files |-> EmptyMap]
    /\ dirB = [is_dir |-> FALSE, files |-> EmptyMap]
    /\ listing = <<>>
    /\ outDir = EmptyMap
    /\ pc = "codec"
    /\ li = 1
    /\ tim_objects = <<>>
    /\ mi = 1
    /\ png_map = <<>>
    /\ groups = <<>>
    /\ gi = 1
    /\ ni = 1
    /\ group_palette = <<>>
    /\ out_dict = None
    /\ saved = <<>>
    /\ err = None
    /\ cin \in CodecTims
    /\ craster = None
    /\ cout = None
    /\ cback = None
    /\ cval = None
    /\ ctrace = <<>>

\* tim.decode() on the source TIM
CodecDecode ==
    /\ pc = "codec"
    /\ craster = None
    /\ Decode(cin).ok
    /\ craster' = Some(Decode(cin).img)
    /\ UNCHANGED <<cin, cout, cback>>
    /\ UNCHANGED colourVars
    /\ UNCHANGED pipeVars

\* the encoder on the decoded raster, against the decoded source palette
CodecEncode ==
    /\ pc = "codec"
    /\ craster # None
    /\ cout = None
    /\ EncodeItem(cin, cin.format_flag, craster[1], ClutRgb(cin.clut_data)).ok
    /\ cout' = Some(EncodeItem(cin, cin.format_flag, craster[1], ClutRgb(cin.clut_data)).out)
    /\ UNCHANGED <<cin, craster, cback>>
    /\ UNCHANGED colourVars
    /\ UNCHANGED pipeVars

\* the encoded record written, read back and decoded
CodecRedecode ==
    /\ pc = "codec"
    /\ cout # None
    /\ cback = None
    /\ LET r == ReadTim(WriteTimFile(cout[1])) IN
       /\ r.ok
       /\ Decode(Tim_Object(NameA, r.tim)).ok
       /\ cback' = Some(Decode(Tim_Object(NameA, r.tim)).img)
    /\ UNCHANGED <<cin, craster, cout>>
    /\ UNCHANGED colourVars
    /\ UNCHANGED pipeVars

NextCodec ==
    \/ CodecDecode
    \/ CodecEncode
    \/ CodecRedecode

SpecCodec == InitCodec /\ [][NextCodec]_vars

\* ------------------------------------------------------ colour conversions

\* most conversions applied in a row to one input
MaxConversions == 4

\* every 16-bit palette entry
PaletteEntries == 0..65535

\* 8-bit channel values: the ends, both sides of a 5-bit step, the middle
ChannelSamples == {0, 1, 7, 8, 9, 127, 128, 200, 248, 255}

\* the decoder and the encoder are idle while the conversions are exercised
InitColour ==
    /\ mode = "colour"
    /\ dirA = [is_dir |-> FALSE, files |-> EmptyMap]
    /\ dirB = [is_dir |-> FALSE, files |-> EmptyMap]
    /\ listing = <<>>
    /\ outDir = EmptyMap
    /\ pc = "colour"
    /\ li = 1
    /\ tim_objects = <<>>
    /\ mi = 1
    /\ png_map = <<>>
    /\ groups = <<>>
    /\ gi = 1
    /\ ni = 1
    /\ group_palette = <<>>
    /\ out_dict = None
    /\ saved = <<>>
    /\ err = None
    /\ cin = NoTim
    /\ craster = None
    /\ cout = None
    /\ cback = None
    /\ \/ \E v \in PaletteEntries : cval = Some([kind |-> "entry", v |-> v])
       \/ \E r, g, b \in ChannelSamples : cval = Some([kind |-> "rgb", v |-> <<r, g, b>>])
    /\ ctrace = <<>>

\* the value the next conversion applies to
Current == IF ctrace = <<>> THEN cval[1] ELSE ctrace[Len(ctrace)]

\* decode's unpacking of one palette entry
ColourUnpack ==
    /\ pc = "colour"
    /\ Len(ctrace) < MaxConversions
    /\ Current.kind = "entry"
    /\ ctrace' = Append(ctrace, [kind |-> "rgb", v |-> Unpack555(Current.v)])
    /\ UNCHANGED <<cin, craster, cout, cback, cval>>
    /\ UNCHANGED pipeVars

\* the encoder's packing of one RGB triple
ColourPack ==
    /\ pc = "colour"
    /\ Len(ctrace) < MaxConversions
    /\ Current.kind = "rgb"
    /\ ctrace' = Append(ctrace, [kind |-> "entry", v |-> Pack555(Current.v)])
    /\ UNCHANGED <<cin, craster, cout, cback, cval>>
    /\ UNCHANGED pipeVars

NextColour ==
    \/ ColourUnpack
    \/ ColourPack

SpecColour == InitColour /\ [][NextColour]_vars

\* ------------------------------------------------------------------ properties

\* the name of the TIM convert_png_tim writes for a key
OutName(key) == key \o DotTim

\* the keys whose output TIM was written completely
WrittenKeys == {tim_objects[k].key : k \in {k \in 1..Len(tim_objects) :
                   \E n \in 1..Len(saved) : saved[n] = OutName(tim_objects[k].key)}}

\* the output TIM of a written key, parsed
OutTim(key) == ReadTim(outDir[OutName(key)]).tim

\* the palette section of a parsed TIM: its length field and its payload
PaletteSection(t) == <<t.clut_bnum, t.clut_data>>

\* the declared slot count of a TIM
Declared(t) == t.clut_size_x * t.clut_size_y

\* the 16-bit entry k of palette bytes
ClutEntry(clut_data, k) == UnpackU16(SubSeq(clut_data, 2 * k - 1, 2 * k))

\* C1: after convert_png_tim, two output TIMs whose source TIMs share the
\* group key (format tag, CLUT x, CLUT y) carry the same palette section
\* (length field and payload), whatever CLUT grids the sources declare.
\* The code sizes each member's palette by the member's own grid.
C1_SamePaletteSections ==
    (mode = "import" /\ pc = "done") =>
        \A i, j \in 1..Len(tim_objects) :
            GroupKey(tim_objects[i].tim) = GroupKey(tim_objects[j].tim)
            => PaletteSection(OutTim(tim_objects[i].key)) = PaletteSection(OutTim(tim_objects[j].key))

\* the item convert_png_tim has just written (pc = "members", ni > 1)
JustWritten == groups[gi].names[ni - 1]

\* C2 as stated: every written TIM's palette payload has exactly the declared
\* slot count clut_size_x * clut_size_y of 16-bit entries.
C2_DeclaredSlotCount ==
    (mode = "import" /\ pc = "members" /\ ni > 1) =>
        Len(OutTim(JustWritten).clut_data) = 2 * Declared(Lookup(tim_objects, JustWritten).tim)

\* C2 amended: the written palette payload has the declared slot count of
\* entries, or the palette size of the depth (16 or 256) when the declared
\* count is zero; entry k is the synthesized palette's entry k, and beyond the
\* synthesized palette every entry repeats its last one.
C2_SlotCountOrPaletteSize ==
    (mode = "import" /\ pc = "members" /\ ni > 1) =>
        LET t == Lookup(tim_objects, JustWritten).tim
            o == OutTim(JustWritten)
            n == IF Declared(t) = 0 THEN PaletteSizeOf(t.format_flag) ELSE Declared(t)
        IN /\ Len(o.clut_data) = 2 * n
           /\ \A k \in 1..n :
                 ClutEntry(o.clut_data, k) = Pack555(group_palette[Min(k, Len(group_palette))])

\* C2 witness: the import ended with one output padded beyond the synthesized
\* palette and one output truncated below it
C2_Witness ==
    /\ mode = "import"
    /\ pc = "done"
    /\ \E a, b \in WrittenKeys :
          /\ Len(OutTim(a).clut_data) > 2 * PaletteSizeOf(OutTim(a).format_flag)
          /\ Declared(Lookup(tim_objects, a).tim) * 2 = Len(OutTim(a).clut_data)
          /\ Len(OutTim(b).clut_data) < 2 * PaletteSizeOf(OutTim(b).format_flag)
          /\ Declared(Lookup(tim_objects, b).tim) * 2 = Len(OutTim(b).clut_data)

\* the decoded palette of the codec input
SourcePalette == ClutRgb(cin.clut_data)

\* the lowest palette index that holds the colour of index i
LowestSameColour(pal, i) == CHOOSE m \in 0..i : pal[m + 1] = pal[i + 1] /\ \A j \in 0..(m - 1) : pal[j + 1] # pal[i + 1]

\* the decoded entries of a palette are pairwise distinct
DistinctColours(pal) == \A i, j \in 1..Len(pal) : pal[i] = pal[j] => i = j

\* C3 as stated: for every valid 8-bit TIM, decoding it and re-encoding the
\* opaque raster against the unchanged source palette reproduces the original
\* pixel index bytes.
C3_IndicesReproduced ==
    (cin.format_flag = Fmt8 /\ cout # None) => cout[1].new_pixel_data = cin.pixel_data

\* C3 amended: the re-encoded index of every pixel is the lowest palette index
\* that holds the colour of the original index; the original index bytes are
\* reproduced exactly when the decoded palette entries are pairwise distinct.
C3_LowestIndexOfSameColour ==
    (cin.format_flag = Fmt8 /\ cout # None) =>
        /\ Len(cout[1].new_pixel_data) = Len(cin.pixel_data)
        /\ \A p \in 1..Len(cin.pixel_data) :
              cout[1].new_pixel_data[p] = LowestSameColour(SourcePalette, cin.pixel_data[p])
        /\ (DistinctColours(SourcePalette) => cout[1].new_pixel_data = cin.pixel_data)

\* C3 witness: an 8-bit TIM with a palette of distinct colours was decoded
\* and re-encoded to its own index bytes
C3_Witness ==
    /\ cin.format_flag = Fmt8
    /\ cout # None
    /\ DistinctColours(SourcePalette)
    /\ Len(cin.pixel_data) > 1
    /\ cout[1].new_pixel_data = cin.pixel_data

\* C4: for every valid 4-bit TIM (its width is even), decoding it, re-encoding
\* the raster against its decoded palette and decoding the result yields the
\* raster of the first decode.
C4_RasterRoundTrip ==
    (cin.format_flag = Fmt4 /\ cback # None) => cback[1] = craster[1]

\* C4 witness: a 4-bit TIM whose palette repeats a colour went through decode,
\* encode and decode, and the re-encoded index bytes differ from the source's
C4_Witness ==
    /\ cin.format_flag = Fmt4
    /\ cback # None
    /\ cin.pixel_data_width % 2 = 0
    /\ ~DistinctColours(SourcePalette)
    /\ cout[1].new_pixel_data # cin.pixel_data

\* the stored-width field of the pixel section of a TIM file
StoredWidthField(b) ==
    UnpackU16(ReadBytes(b, 20 + (UnpackU32(ReadBytes(b, 8, 4)) - SectionHeaderLen) + 8, 2))

\* the factor between stored width and true width
DepthFactor(fmt) == IF fmt = Fmt4 THEN 4 ELSE 2

\* C5: the true width read_tim yields is the stored width times 4 (4-bit) or
\* times 2 (8-bit), and the stored width convert_png_tim writes satisfies the
\* same equation against the true width, so it is the stored width of the
\* source TIM.
C5_StoredWidthRelation ==
    /\ \A k \in 1..Len(tim_objects) :
          LET t == tim_objects[k].tim IN
          t.pixel_data_width
             = StoredWidthField(dirA.files[t.tim_file_name]) * DepthFactor(t.format_flag)
    /\ mode = "import" =>
          \A key \in WrittenKeys :
             LET t == Lookup(tim_objects, key).tim
                 out == outDir[OutName(key)]
             IN /\ StoredWidthField(out) * DepthFactor(t.format_flag) = t.pixel_data_width
                /\ StoredWidthField(out) = StoredWidthField(dirA.files[t.tim_file_name])

\* C5 witness: the import wrote a 4-bit and an 8-bit TIM
C5_Witness ==
    /\ mode = "import"
    /\ pc = "done"
    /\ \E a, b \in WrittenKeys :
          /\ Lookup(tim_objects, a).tim.format_flag = Fmt4
          /\ Lookup(tim_objects, b).tim.format_flag = Fmt8

\* the raster file the work folder holds for a key
PngName(key) == key \o DotPng

\* the work folder holds a readable raster for the key
HasRaster(key) == PngName(key) \in DOMAIN dirB.files /\ dirB.files[PngName(key)].ok

\* the raster of a key
RasterOf(key) == dirB.files[PngName(key)].img

\* the loaded items that are 4-bit and whose raster has an odd width
OddWidth4Items ==
    {k \in 1..Len(tim_objects) :
        /\ tim_objects[k].tim.format_flag = Fmt4
        /\ HasRaster(tim_objects[k].key)
        /\ RasterOf(tim_objects[k].key).w % 2 = 1}

\* C6 as stated: the error raised for an item whose raster is odd-width at
\* 4-bit depth is the encoding-constraint error (width must be even).
C6_OddWidthRaisesConstraint ==
    (mode = "import" /\ pc = "error") =>
        \A k \in OddWidth4Items :
            err[1].name = Some(tim_objects[k].key) => err[1].kind = "WidthMustBeEven"

\* C6 amended: an odd-width raster of a 4-bit TIM is rejected by the size
\* check of match_png_files (the TIM's own width is a multiple of 4): the item
\* never enters png_map, no TIM is written for it, the error raised for it is
\* the size-mismatch error, and the width-must-be-even error is never raised.
C6_OddWidthIsSizeMismatch ==
    mode = "import" =>
        /\ \A k \in OddWidth4Items :
              /\ \A n \in 1..Len(png_map) : png_map[n].key # tim_objects[k].key
              /\ OutName(tim_objects[k].key) \notin DOMAIN outDir
              /\ (pc = "error" /\ err[1].name = Some(tim_objects[k].key))
                    => err[1].kind = "SizeMismatch"
        /\ (OddWidth4Items # {} /\ li > Len(listing)) => pc \in {"load", "match_enter", "match", "error"}
        /\ pc = "error" => err[1].kind # "WidthMustBeEven"

\* C6 witness: the import stopped on a 4-bit item whose raster is odd-width
C6_Witness ==
    /\ mode = "import"
    /\ pc = "error"
    /\ \E k \in OddWidth4Items :
          /\ err[1].name = Some(tim_objects[k].key)
          /\ err[1].kind = "SizeMismatch"
          /\ RasterOf(tim_objects[k].key).h = tim_objects[k].tim.pixel_data_height

\* the loaded items whose readable raster differs in size from the TIM
MismatchedItems ==
    {k \in 1..Len(tim_objects) :
        /\ HasRaster(tim_objects[k].key)
        /\ <<RasterOf(tim_objects[k].key).w, RasterOf(tim_objects[k].key).h>>
             # <<tim_objects[k].tim.pixel_data_width, tim_objects[k].tim.pixel_data_height>>}

\* load_tim_files has returned the whole batch
BatchLoaded == li > Len(listing) /\ tim_objects # <<>> /\ pc # "load"

\* the error match_png_files raises for item k, if its check fails
MatchFailure(k) ==
    IF PngName(tim_objects[k].key) \notin DOMAIN dirB.files
    THEN Some(Error("MissingMatch", Some(tim_objects[k].key), ""))
    ELSE IF ~dirB.files[PngName(tim_objects[k].key)].ok
    THEN Some(Error("ImageOpenError", None, ""))
    ELSE IF k \in MismatchedItems
    THEN Some(Error("SizeMismatch", Some(tim_objects[k].key), ""))
    ELSE None

\* C7 as stated: when a TIM of the batch has a raster of another size, the
\* error the import ends with is the size-mismatch error.
C7_MismatchRaisesSizeMismatch ==
    (mode = "import" /\ BatchLoaded /\ dirB.is_dir /\ MismatchedItems # {} /\ pc = "error")
        => err[1].kind = "SizeMismatch"

\* C7 amended: when a TIM of the batch has a raster of another size, the
\* import fails in match_png_files before any palette is synthesized, any
\* image encoded or any TIM written, and the rasters stay as they are; the
\* error is that of the first TIM in iteration order whose check fails: the
\* size-mismatch error unless that TIM's raster is missing or unreadable.
C7_MismatchStopsBeforeEncoding ==
    (mode = "import" /\ MismatchedItems # {}) =>
        /\ groups = <<>>
        /\ group_palette = <<>>
        /\ out_dict = None
        /\ outDir = EmptyMap
        /\ saved = <<>>
        /\ pc \in {"start", "load", "match_enter", "match", "error"}
        /\ (BatchLoaded /\ dirB.is_dir /\ pc = "match") =>
              \A k \in 1..(mi - 1) : MatchFailure(k) = None
        /\ (BatchLoaded /\ dirB.is_dir /\ pc = "error") =>
              /\ mi <= Len(tim_objects)
              /\ err = MatchFailure(mi)
              /\ \A k \in 1..(mi - 1) : MatchFailure(k) = None

\* C7 witness: the import stopped with the size-mismatch error on a raster
\* whose width and height are those of the TIM, swapped
C7_Witness ==
    /\ mode = "import"
    /\ pc = "error"
    /\ err[1].kind = "SizeMismatch"
    /\ \E k \in MismatchedItems :
          /\ err[1].name = Some(tim_objects[k].key)
          /\ RasterOf(tim_objects[k].key).w = tim_objects[k].tim.pixel_data_height
          /\ RasterOf(tim_objects[k].key).h = tim_objects[k].tim.pixel_data_width

\* the exceptions read_tim raises
ReadErrors == {"InvalidHeader", "UnsupportedFormat", "StructError", "ReadLengthError"}

\* C8: in convert_tim_png the first item that fails at a per-item step (parse,
\* decode, save) aborts the batch, and the error that reaches the caller wraps
\* the cause together with the failing item's name.  A failing parse leaves
\* load_tim_files as the bare exception of read_tim.
C8_FailureWrapsCauseAndName ==
    (mode = "export" /\ pc = "error" /\ err[1].kind \in ReadErrors \cup {"ExportFailure"}) =>
        /\ err[1].name # None
        /\ err[1].cause # ""

\* the name is one of the TIM files load_tim_files reads
IsTimName(n) == Lower(Suffix(n)) = DotTim

\* two TIM files of folder_a whose names differ only in letter case
CaseOnlyPairs ==
    {pr \in (DOMAIN dirA.files) \X (DOMAIN dirA.files) :
        /\ pr[1] # pr[2]
        /\ IsTimName(pr[1])
        /\ IsTimName(pr[2])
        /\ Lower(pr[1]) = Lower(pr[2])}

\* the part of a TIM file name before its extension
BeforeExtension(n) == SubSeq(n, 1, Len(n) - Len(DotTim))

\* those of them that are the same before the extension: the case differs in
\* the extension only
SameStemPairs == {pr \in CaseOnlyPairs : BeforeExtension(pr[1]) = BeforeExtension(pr[2])}

\* load_tim_files is over: it returned the map or raised
LoadOver == pc \notin {"start", "load"}

\* the exception left load_tim_files itself
LoadFailed == pc = "error" /\ li <= Len(listing)

\* C9 as stated: load_tim_files raises the duplicate-name error whenever the
\* folder holds two TIM files whose names differ only in letter case (taken
\* here on folders whose TIM files all parse).
C9_CaseOnlyRaisesDuplicate ==
    (/\ dirA.is_dir
     /\ CaseOnlyPairs # {}
     /\ \A n \in DOMAIN dirA.files : IsTimName(n) => ReadTim(dirA.files[n]).ok
     /\ LoadOver) =>
        (LoadFailed /\ err[1].kind = "DuplicateName")

\* C9 amended: when the folder holds two TIM files with the same stem (their
\* names differ only in the letter case of the extension), load_tim_files
\* returns no map: it raises the duplicate-name error for that stem, unless
\* read_tim fails first on a file; the duplicate-name error is raised for no
\* other folder, so stems that differ in letter case are distinct keys.
C9_SameStemRaisesDuplicate ==
    /\ (dirA.is_dir /\ SameStemPairs # {} /\ LoadOver) =>
          /\ LoadFailed
          /\ err[1].kind \in {"DuplicateName"} \cup ReadErrors
          /\ (\A n \in DOMAIN dirA.files : IsTimName(n) => ReadTim(dirA.files[n]).ok)
                => err[1].kind = "DuplicateName"
    /\ (pc = "error" /\ err[1].kind = "DuplicateName") =>
          /\ LoadFailed
          /\ \E pr \in SameStemPairs : err[1].name = Some(BeforeExtension(pr[1]))

\* C9 witness: load_tim_files raised the duplicate-name error on a folder
\* whose two TIM files differ in the case of the extension
C9_Witness ==
    /\ pc = "error"
    /\ err[1].kind = "DuplicateName"
    /\ \E pr \in SameStemPairs : Suffix(pr[1]) # Suffix(pr[2])
    /\ tim_objects # <<>>

\* the file read_tim was called on for position k of the listing
WasRead(k) == IsTimName(listing[k]) /\ (k < li \/ (k = li /\ pc = "error"))

\* C10: read_tim fails with the invalid-header error whenever the first 4
\* bytes are not the magic, and with the unsupported-format error whenever the
\* magic is present and the format tag is neither the 4-bit nor the 8-bit
\* tag; no image record comes back in either case.
C10_HeaderAndFormatRejected ==
    \A k \in 1..Len(listing) :
        WasRead(k) =>
            LET b == dirA.files[listing[k]] IN
            /\ ReadBytes(b, 0, 4) # Magic =>
                  /\ pc = "error" /\ k = li
                  /\ err = Some(Error("InvalidHeader", None, ""))
                  /\ \A n \in 1..Len(tim_objects) : tim_objects[n].tim.tim_file_name # listing[k]
            /\ (ReadBytes(b, 0, 4) = Magic /\ ReadBytes(b, 4, 4) \notin {Fmt4, Fmt8}) =>
                  /\ pc = "error" /\ k = li
                  /\ err = Some(Error("UnsupportedFormat", None, ""))
                  /\ \A n \in 1..Len(tim_objects) : tim_objects[n].tim.tim_file_name # listing[k]

\* C10 witness: read_tim raised the unsupported-format error on a file that
\* starts with the magic and carries a full 4-byte tag
C10_Witness ==
    /\ pc = "error"
    /\ li <= Len(listing)
    /\ err[1].kind = "UnsupportedFormat"
    /\ ReadBytes(dirA.files[listing[li]], 0, 4) = Magic
    /\ Len(ReadBytes(dirA.files[listing[li]], 4, 4)) = 4

\* the pixel index stored for the 0-based pixel p of a parsed TIM
EmittedIndex(t, p) ==
    IF t.format_flag = Fmt8 THEN t.pixel_data[p + 1]
    ELSE LET byte == t.pixel_data[(p \div 2) + 1]
         IN IF p % 2 = 0 THEN byte % 16 ELSE byte \div 16

\* the 0-based palette indices whose entry is at the least squared distance
\* from the colour c
Minimizers(c, pal) ==
    {i \in 0..(Len(pal) - 1) : \A j \in 0..(Len(pal) - 1) : Dist(c, pal[i + 1]) <= Dist(c, pal[j + 1])}

\* the least element of a non-empty set of naturals
Lowest(S) == CHOOSE i \in S : \A j \in S : i <= j

\* C11: every pixel index written by convert_png_tim is 0 when the alpha of
\* the raster's pixel is strictly below 128, and otherwise the lowest palette
\* index among the entries of the group palette at the least squared
\* Euclidean distance over (R, G, B) from the pixel's colour; alpha exactly
\* 128 takes the nearest-colour index.
C11_AlphaThenLowestNearest ==
    (mode = "import" /\ pc = "members" /\ ni > 1) =>
        LET o == OutTim(JustWritten)
            src == RasterOf(JustWritten)
        IN \A p \in 0..(Len(src.px) - 1) :
              EmittedIndex(o, p) =
                 IF src.px[p + 1][4] < 128 THEN 0
                 ELSE Lowest(Minimizers(SubSeq(src.px[p + 1], 1, 3), group_palette))

\* C11 witness: a written TIM holds a pixel of alpha 128 that took a non-zero
\* index out of several entries at the least distance, and a pixel of alpha
\* 127 that took index 0 although its nearest entry is another one
C11_Witness ==
    /\ mode = "import"
    /\ pc = "members"
    /\ ni > 1
    /\ LET o == OutTim(JustWritten)
           src == RasterOf(JustWritten)
       IN /\ \E p \in 0..(Len(src.px) - 1) :
                /\ src.px[p + 1][4] = 128
                /\ EmittedIndex(o, p) # 0
                /\ Cardinality(Minimizers(SubSeq(src.px[p + 1], 1, 3), group_palette)) > 1
          /\ \E p \in 0..(Len(src.px) - 1) :
                /\ src.px[p + 1][4] = 127
                /\ EmittedIndex(o, p) = 0
                /\ 0 \notin Minimizers(SubSeq(src.px[p + 1], 1, 3), group_palette)

\* the items convert_png_tim has not reached while it is at group g (before
\* its palette when inGroup is FALSE, at its member n otherwise): the members
\* after n in the group and every member of the groups after it
LaterItems(g, n, inGroup) ==
    {groups[h].names[m] : <<h, m>> \in
        {q \in (1..Len(groups)) \X (1..Len(tim_objects)) :
            /\ q[2] <= Len(groups[q[1]].names)
            /\ \/ q[1] > g
               \/ q[1] = g /\ (~inGroup \/ q[2] > n)}}

\* C12: when convert_png_tim fails on an item (palette synthesis, encoding or
\* write) no later item of the processing order is written, every TIM already
\* saved stays on disk with the bytes it was written with, and the batch
\* raises one error: after the error no step is taken.
C12_StopsAtFirstFailure ==
    [][mode = "import" =>
         /\ err = None
         /\ Len(saved') >= Len(saved)
         /\ \A n \in 1..Len(saved) :
               /\ saved'[n] = saved[n]
               /\ outDir'[saved[n]] = outDir[saved[n]]
         /\ (err' # None /\ pc \in {"groups", "members", "write"}) =>
               /\ saved' = saved
               /\ \A k \in LaterItems(gi, ni, pc # "groups") : OutName(k) \notin DOMAIN outDir'
       ]_vars

\* C12 witness: the write of an item failed after an earlier item was saved
\* and before a later item of the processing order was reached
C12_Witness ==
    /\ mode = "import"
    /\ pc = "error"
    /\ err[1].kind = "WriteFailure"
    /\ Len(saved) > 0
    /\ outDir[saved[1]] = WriteTimFile(EncodeItem(Lookup(tim_objects, Stem(saved[1])).tim,
                                                 groups[1].key[1],
                                                 RasterOf(Stem(saved[1])),
                                                 ComputeGroupPalette(Ramp(3), PaletteSize4)).out)
    /\ LaterItems(gi, ni, TRUE) # {}
    /\ \A k \in LaterItems(gi, ni, TRUE) : OutName(k) \notin DOMAIN outDir

\* the number of 16-bit entries in the palette section of a parsed TIM
StoredEntries(t) == Len(t.clut_data) \div 2

\* C13: in every TIM written by convert_png_tim each stored pixel index is
\* strictly below the number of palette entries stored in the same file, so
\* decoding the written file finds every index in its palette. The code maps
\* pixels against the whole group palette and then cuts the stored palette to
\* the declared slot count.
C13_IndicesWithinStoredPalette ==
    (mode = "import" /\ pc = "members" /\ ni > 1) =>
        LET o == OutTim(JustWritten)
        IN /\ \A p \in 0..(o.pixel_data_width * o.pixel_data_height - 1) :
                 EmittedIndex(o, p) < StoredEntries(o)
           /\ Decode(Tim_Object(OutName(JustWritten), o)).ok

\* the palette section length field of a TIM file (offset 8)
ClutLengthField(b) == UnpackU32(ReadBytes(b, 8, 4))

\* the pixel section length field of a TIM file: it follows the palette section
PixelLengthField(b) == UnpackU32(ReadBytes(b, 8 + ClutLengthField(b), 4))

\* the palette entries convert_png_tim stores for a source TIM
EntriesFor(t) == IF Declared(t) = 0 THEN PaletteSizeOf(t.format_flag) ELSE Declared(t)

\* the pixel payload of a width x height raster: one byte per pixel at 8-bit
\* depth, one byte per two pixels at 4-bit depth
PixelPayload(t) ==
    IF t.format_flag = Fmt8 THEN t.pixel_data_width * t.pixel_data_height
    ELSE (t.pixel_data_width \div 2) * t.pixel_data_height

\* C14: in every TIM written by convert_png_tim the palette length field is
\* the palette payload byte count + 12, the pixel length field is the pixel
\* payload byte count + 12, the pixel payload is width*height bytes at 8-bit
\* depth and (width/2)*height bytes at 4-bit depth, and read_tim consumes the
\* file exactly: nothing is truncated and no byte trails.
C14_SectionLengthsExact ==
    (mode = "import" /\ pc = "members" /\ ni > 1) =>
        LET t == Lookup(tim_objects, JustWritten).tim
            b == outDir[OutName(JustWritten)]
            r == ReadTim(b)
        IN /\ ClutLengthField(b) = 2 * EntriesFor(t) + 12
           /\ PixelLengthField(b) = PixelPayload(t) + 12
           /\ Len(b) = 8 + ClutLengthField(b) + PixelLengthField(b)
           /\ r.ok
           /\ Len(r.tim.clut_data) = ClutLengthField(b) - 12
           /\ Len(r.tim.pixel_data) = PixelLengthField(b) - 12
           /\ Len(r.tim.pixel_data) = PixelPayload(r.tim)

\* C14 witness: a written 4-bit TIM of more than one row whose palette is not
\* of the palette size, beside a written 8-bit TIM
C14_Witness ==
    /\ mode = "import"
    /\ pc = "members"
    /\ ni > 1
    /\ \E a, b \in WrittenKeys :
          /\ OutTim(a).format_flag = Fmt4
          /\ OutTim(a).pixel_data_height > 1
          /\ StoredEntries(OutTim(a)) # PaletteSize4
          /\ Len(OutTim(a).pixel_data) = 2 * OutTim(a).pixel_data_height
          /\ OutTim(b).format_flag = Fmt8
          /\ Len(OutTim(b).pixel_data) = 2

\* the fields of a TIM file that are neither a payload nor a section length:
\* magic, format tag, CLUT origin and grid, pixel origin, stored width, height
FrameFields(b) ==
    LET px == 8 + ClutLengthField(b)
    IN <<ReadBytes(b, 0, 4), ReadBytes(b, 4, 4), ReadBytes(b, 12, 4), ReadBytes(b, 16, 4),
         ReadBytes(b, px + 4, 4), ReadBytes(b, px + 8, 2), ReadBytes(b, px + 10, 2)>>

\* the record load_tim_files builds for the file of a loaded item
AsLoaded(t) == Tim_Object(t.tim_file_name, ReadTim(dirA.files[t.tim_file_name]).tim)

\* C15: every TIM written by convert_png_tim carries the magic, format tag,
\* CLUT origin, CLUT grid size, pixel origin and height of its source TIM,
\* byte for byte (the stored width too: nothing but the two payloads and the
\* two section lengths differs), and the import leaves the in-memory records of the source
\* TIMs as load_tim_files built them.
C15_SourceFieldsKept ==
    mode = "import" =>
        /\ \A key \in WrittenKeys :
               FrameFields(outDir[OutName(key)])
                  = FrameFields(dirA.files[Lookup(tim_objects, key).tim.tim_file_name])
        /\ \A k \in 1..Len(tim_objects) : tim_objects[k].tim = AsLoaded(tim_objects[k].tim)

\* C15 witness: the import wrote two TIMs of different CLUT origins, one of
\* them with a grid of 16x2 and a palette payload recomputed to other bytes
C15_Witness ==
    /\ mode = "import"
    /\ pc = "done"
    /\ \E a, b \in WrittenKeys :
          /\ OutTim(a).clut_coord_y # OutTim(b).clut_coord_y
          /\ <<OutTim(b).clut_size_x, OutTim(b).clut_size_y>> = <<16, 2>>
          /\ <<OutTim(b).pixel_coord_x, OutTim(b).pixel_coord_y>> = <<320, 1>>
          /\ OutTim(b).clut_data # Lookup(tim_objects, b).tim.clut_data

\* an 8-bit channel with its low 3 bits cleared
ClearLow3(c) == c - (c % 8)

\* C16: unpacking a 16-bit palette entry v as decode does and packing the
\* RGB as the encoder does returns v with bit 15 cleared; packing an 8-bit
\* RGB triple and unpacking the entry returns the triple with the low 3 bits
\* of each channel cleared, and a second pack and unpack returns the same.
C16_PackUnpackRoundTrip ==
    pc = "colour" =>
        /\ (cval[1].kind = "entry" /\ Len(ctrace) >= 2) =>
              ctrace[2].v = cval[1].v % 32768
        /\ (cval[1].kind = "rgb" /\ Len(ctrace) >= 2) =>
              ctrace[2].v = <<ClearLow3(cval[1].v[1]), ClearLow3(cval[1].v[2]),
                              ClearLow3(cval[1].v[3])>>
        /\ (cval[1].kind = "rgb" /\ Len(ctrace) >= 4) =>
              ctrace[4].v = ctrace[2].v

\* C16 witness: a triple with low bits set in every channel was packed and
\* unpacked twice and came back changed
C16_Witness ==
    /\ pc = "colour"
    /\ cval[1].kind = "rgb"
    /\ \A i \in 1..3 : cval[1].v[i] % 8 # 0
    /\ Len(ctrace) = 4
    /\ ctrace[4].v # cval[1].v

====
